---- MODULE Spec2Model ----
(***************************************************************************)
(* TrenchBroom IO::NodeSerializer (common/src/IO/NodeSerializer.cpp).      *)
(*                                                                         *)
(* The serializer walks scene-graph nodes and reports what it finds to a   *)
(* format strategy through the virtual hooks doBeginFile, doEndFile,       *)
(* doBeginEntity, doEndEntity, doEntityProperty, doBrush and doBrushFace.  *)
(* The model keeps the serializer's members, the function-local static     *)
(* counter of IdManager::makeId, and the sequence of hook calls the        *)
(* strategy has received.  Every member function is an operator from a     *)
(* serializer state to the state it leaves behind; every public member     *)
(* function is an action.                                                  *)
(***************************************************************************)
EXTENDS Integers, Sequences, FiniteSets, TLC

\* ------------------------------------------------------------------------
\* Bounds of the model
\* ------------------------------------------------------------------------

\* number of public calls made on one serializer
MaxCalls == 4

\* largest value the static id counter may already have when the serializer
\* is constructed (earlier serializers of the process have drawn from it)
MaxStartId == 9

\* longest string given to escapeEntityProperties
MaxLen == 4

\* latest hook call in which the format strategy may fail
MaxFailAt == 8

\* ------------------------------------------------------------------------
\* Strings and conversions
\* ------------------------------------------------------------------------

Digits == <<"0", "1", "2", "3", "4", "5", "6", "7", "8", "9">>

\* kdl::str_to_string on an unsigned integer: its decimal digits
RECURSIVE str_to_string(_)
str_to_string(n) ==
    IF n < 10 THEN Digits[n + 1]
    ELSE str_to_string(n \div 10) \o Digits[(n % 10) + 1]

\* IdManager::idToString
idToString(nodeId) == str_to_string(nodeId)

\* ------------------------------------------------------------------------
\* Model::PropertyKeys and Model::PropertyValues
\* ------------------------------------------------------------------------

PropertyKeys_Classname           == "classname"
PropertyKeys_GroupType           == "_tb_type"
PropertyKeys_LayerId             == "_tb_id"
PropertyKeys_LayerName           == "_tb_name"
PropertyKeys_LayerSortIndex      == "_tb_layer_sort_index"
PropertyKeys_LayerColor          == "_tb_layer_color"
PropertyKeys_LayerLocked         == "_tb_layer_locked"
PropertyKeys_LayerHidden         == "_tb_layer_hidden"
PropertyKeys_LayerOmitFromExport == "_tb_layer_omit_from_export"
PropertyKeys_Layer               == "_tb_layer"
PropertyKeys_GroupId             == "_tb_id"
PropertyKeys_GroupName           == "_tb_name"
PropertyKeys_Group               == "_tb_group"

PropertyValues_LayerClassname           == "func_group"
PropertyValues_GroupClassname           == "func_group"
PropertyValues_GroupTypeLayer           == "_tb_layer"
PropertyValues_GroupTypeGroup           == "_tb_group"
PropertyValues_LayerLockedValue         == "1"
PropertyValues_LayerHiddenValue         == "1"
PropertyValues_LayerOmitFromExportValue == "1"

\* Model::EntityProperty(key, value)
EntityProperty(k, v) == [key |-> k, value |-> v]

\* ------------------------------------------------------------------------
\* State
\* ------------------------------------------------------------------------

VARIABLES
    m_entityNo,   \* NodeSerializer::m_entityNo
    m_brushNo,    \* NodeSerializer::m_brushNo
    m_exporting,  \* NodeSerializer::m_exporting
    m_layerIds,   \* NodeSerializer::m_layerIds.m_ids : node -> id string
    m_groupIds,   \* NodeSerializer::m_groupIds.m_ids : node -> id string
    currentId,    \* the static local of IdManager::makeId
    hooks,        \* the hook calls the format strategy has received, in order
    failAt,       \* the strategy signals failure in its failAt-th next hook (0: never)
    thrown,       \* the last call left by an exception of a hook
    result,       \* what the last call returned
    called,       \* the last call: the member function, its node and other arguments
    ncalls,       \* public calls made so far
    document      \* the world node of the document being written

vars == <<m_entityNo, m_brushNo, m_exporting, m_layerIds, m_groupIds,
          currentId, hooks, failAt, thrown, result, called, ncalls, document>>

\* no node: nullptr, and the node field of a hook call that has no node
NoNode == 0

NoResult == <<>>

\* the members as one value, which the member functions transform
this ==
    [m_entityNo  |-> m_entityNo,
     m_brushNo   |-> m_brushNo,
     m_exporting |-> m_exporting,
     m_layerIds  |-> m_layerIds,
     m_groupIds  |-> m_groupIds,
     currentId   |-> currentId,
     hooks       |-> hooks,
     failAt      |-> failAt,
     thrown      |-> FALSE,
     result      |-> NoResult]

\* the members after a call of member function op on node n, with further
\* arguments a, that left the members as s and the document as w
ReturnsFrom(s, op, n, a, w) ==
    /\ m_entityNo'  = s.m_entityNo
    /\ m_brushNo'   = s.m_brushNo
    /\ m_exporting' = s.m_exporting
    /\ m_layerIds'  = s.m_layerIds
    /\ m_groupIds'  = s.m_groupIds
    /\ currentId'   = s.currentId
    /\ hooks'       = s.hooks
    /\ failAt'      = s.failAt
    /\ thrown'      = s.thrown
    /\ result'      = s.result
    /\ called'      = [op |-> op, node |-> n, args |-> a]
    /\ ncalls'      = ncalls + 1
    /\ document'    = w

\* a call that takes the document by reference to const, or not at all
ReturnsWith(s, op, n, a) == ReturnsFrom(s, op, n, a, document)

Returns(s, op, n) == ReturnsWith(s, op, n, <<>>)

\* ------------------------------------------------------------------------
\* The format strategy: the pure virtual hooks
\* ------------------------------------------------------------------------

\* One hook call.  The strategy sees the serializer through entityNo() and
\* brushNo(), so their values at the time of the call are part of it.
HookCall(s, h, n, k, v) ==
    [hook     |-> h,
     node     |-> n,
     key      |-> k,
     value    |-> v,
     entityNo |-> s.m_entityNo,
     brushNo  |-> s.m_brushNo,
     failed   |-> s.failAt = 1]

\* The strategy receives the call; it throws if this is the call it fails in.
\* An exception in flight skips every later statement.
Hook(s, h, n, k, v) ==
    IF s.thrown THEN s
    ELSE [s EXCEPT !.hooks  = Append(@, HookCall(s, h, n, k, v)),
                   !.thrown = (s.failAt = 1),
                   !.failAt = IF @ > 0 THEN @ - 1 ELSE 0]

doBeginFile(s, rootNodes)   == Hook(s, "doBeginFile", NoNode, "", "")
doEndFile(s)                == Hook(s, "doEndFile", NoNode, "", "")
doBeginEntity(s, node)      == Hook(s, "doBeginEntity", node.id, "", "")
doEndEntity(s, node)        == Hook(s, "doEndEntity", node.id, "", "")
doEntityProperty(s, property) ==
    Hook(s, "doEntityProperty", NoNode, property.key, property.value)
doBrush(s, brushNode)       == Hook(s, "doBrush", brushNode.id, "", "")
doBrushFace(s, face)        == Hook(s, "doBrushFace", face.id, "", "")

\* ------------------------------------------------------------------------
\* NodeSerializer: the file and entity protocol
\* ------------------------------------------------------------------------

setExporting(s, exporting) == [s EXCEPT !.m_exporting = exporting]

\* beginFile resetting the id caches with the counters
beginFile_clearsIds(s, rootNodes) ==
    IF s.thrown THEN s
    ELSE doBeginFile([s EXCEPT !.m_entityNo = 0, !.m_brushNo = 0,
                               !.m_layerIds = <<>>, !.m_groupIds = <<>>],
                     rootNodes)

beginFile(s, rootNodes) ==
    IF s.thrown THEN s
    ELSE doBeginFile([s EXCEPT !.m_entityNo = 0, !.m_brushNo = 0], rootNodes)

endFile(s) == doEndFile(s)

\* beginEntity(node) without its reset of the brush counter
beginEntity1_noReset(s, node) == doBeginEntity(s, node)

beginEntity1(s, node) ==
    IF s.thrown THEN s
    ELSE doBeginEntity([s EXCEPT !.m_brushNo = 0], node)

\* endEntity without its increment
endEntity_noIncrement(s, node) == doEndEntity(s, node)

endEntity(s, node) ==
    LET t == doEndEntity(s, node)
    IN  IF t.thrown THEN t ELSE [t EXCEPT !.m_entityNo = @ + 1]

entityProperty(s, property) == doEntityProperty(s, property)

RECURSIVE entityProperties(_, _)
entityProperties(s, properties) ==
    IF properties = <<>> THEN s
    ELSE entityProperties(entityProperty(s, Head(properties)), Tail(properties))

\* brush() counting the brush before it calls the hook
brush_countsFirst(s, brushNode) ==
    doBrush([s EXCEPT !.m_brushNo = @ + 1], brushNode)

brush(s, brushNode) ==
    LET t == doBrush(s, brushNode)
    IN  IF t.thrown THEN t ELSE [t EXCEPT !.m_brushNo = @ + 1]

RECURSIVE brushes(_, _)
brushes(s, brushNodes) ==
    IF brushNodes = <<>> THEN s
    ELSE brushes(brush(s, Head(brushNodes)), Tail(brushNodes))

brushFace(s, face) == doBrushFace(s, face)

RECURSIVE brushFaces(_, _)
brushFaces(s, faces) ==
    IF faces = <<>> THEN s
    ELSE brushFaces(brushFace(s, Head(faces)), Tail(faces))

beginEntity(s, node, properties, extraAttributes) ==
    entityProperties(entityProperties(beginEntity1(s, node), properties),
                     extraAttributes)

\* ------------------------------------------------------------------------
\* Scene-graph nodes (Model::Node and its five kinds), as the serializer
\* reads them: identity, kind, name, children in order, and for a layer
\* the data of Model::Layer with the node's lock state and hidden flag
\* ------------------------------------------------------------------------

nullptr == [id |-> NoNode, kind |-> "nullptr", name |-> "", children |-> <<>>]

BrushNode(i) == [id |-> i, kind |-> "Brush", name |-> "", children |-> <<>>]

EntityNode(i, ch) == [id |-> i, kind |-> "Entity", name |-> "", children |-> ch]

GroupNode(i, nm, ch) == [id |-> i, kind |-> "Group", name |-> nm, children |-> ch]

\* std::optional<Color> without a value
NoColor == <<>>

Lock_Locked  == "Lock_Locked"
Lock_Inherited == "Lock_Inherited"
Lock_Unlocked == "Lock_Unlocked"

LayerNode(i, nm, ch, col, hasSort, sort, omit, lock, hid) ==
    [id |-> i, kind |-> "Layer", name |-> nm, children |-> ch,
     color |-> col, hasSortIndex |-> hasSort, sortIndex |-> sort,
     omitFromExport |-> omit, lockState |-> lock, hidden |-> hid]

WorldNode(i, props, dl) ==
    [id |-> i, kind |-> "World", name |-> "", children |-> <<dl>>,
     entity |-> props, defaultLayer |-> dl]

\* operator<< of vm::vec (vecmath/vec_io.h) through kdl::str_to_string:
\* the components separated by blanks
RECURSIVE colorToString(_)
colorToString(c) ==
    IF Len(c) = 1 THEN str_to_string(c[1])
    ELSE str_to_string(Head(c)) \o " " \o colorToString(Tail(c))

\* ------------------------------------------------------------------------
\* Model::Entity: the property list of an entity
\* ------------------------------------------------------------------------

hasProperty(properties, k) ==
    \E i \in 1..Len(properties) : properties[i].key = k

\* Entity::addOrUpdateProperty: the value of an existing key is replaced in
\* place, a new key is appended
addOrUpdateProperty(properties, k, v) ==
    IF hasProperty(properties, k)
    THEN [i \in 1..Len(properties) |->
            IF properties[i].key = k THEN EntityProperty(k, v) ELSE properties[i]]
    ELSE Append(properties, EntityProperty(k, v))

\* Entity::removeProperty
removeProperty(properties, k) ==
    SelectSeq(properties, LAMBDA p : p.key # k)

\* ------------------------------------------------------------------------
\* NodeSerializer::IdManager
\* ------------------------------------------------------------------------

\* makeId returning the counter without incrementing it
makeId_noIncrement(s) == [id |-> s.currentId, s |-> s]

\* makeId: the value of the static counter, which is then incremented.
\* The counter is a static local of the member function, so every
\* IdManager of the process draws from the same one.
makeId(s) == [id |-> s.currentId, s |-> [s EXCEPT !.currentId = @ + 1]]

\* getId on the manager held in member m ("m_layerIds" or "m_groupIds"):
\* the state afterwards and the string returned
getId(s, m, t) ==
    IF t.id \in DOMAIN s[m]
    THEN [s |-> s, id |-> s[m][t.id]]
    ELSE LET made == makeId(s)
             str  == idToString(made.id)
         IN  [s |-> [made.s EXCEPT ![m] = @ @@ (t.id :> str)], id |-> str]

\* ------------------------------------------------------------------------
\* NodeSerializer: property synthesis
\* ------------------------------------------------------------------------

\* parentProperties taking the id of a layer from the group manager
parentProperties_groupManager(s, node) ==
    IF node.id = NoNode THEN [s EXCEPT !.result = <<>>]
    ELSE CASE node.kind = "World"  -> [s EXCEPT !.result = <<>>]
           [] node.kind \in {"Layer", "Group"} ->
                LET g == getId(s, "m_groupIds", node)
                IN  [g.s EXCEPT !.result =
                        <<EntityProperty(IF node.kind = "Layer" THEN PropertyKeys_Layer
                                         ELSE PropertyKeys_Group, g.id)>>]
           [] node.kind = "Entity" -> [s EXCEPT !.result = <<>>]
           [] node.kind = "Brush"  -> [s EXCEPT !.result = <<>>]

\* parentProperties: the state afterwards carries the vector returned
parentProperties(s, node) ==
    IF node.id = NoNode THEN [s EXCEPT !.result = <<>>]
    ELSE CASE node.kind = "World"  -> [s EXCEPT !.result = <<>>]
           [] node.kind = "Layer"  ->
                LET g == getId(s, "m_layerIds", node)
                IN  [g.s EXCEPT !.result = <<EntityProperty(PropertyKeys_Layer, g.id)>>]
           [] node.kind = "Group"  ->
                LET g == getId(s, "m_groupIds", node)
                IN  [g.s EXCEPT !.result = <<EntityProperty(PropertyKeys_Group, g.id)>>]
           [] node.kind = "Entity" -> [s EXCEPT !.result = <<>>]
           [] node.kind = "Brush"  -> [s EXCEPT !.result = <<>>]

\* layerProperties taking a fresh id at every call instead of the cached one
layerProperties_freshId(s, layerNode) ==
    LET m == makeId(s)
    IN  [s |-> m.s,
         properties |->
            <<EntityProperty(PropertyKeys_Classname, PropertyValues_LayerClassname),
              EntityProperty(PropertyKeys_GroupType, PropertyValues_GroupTypeLayer),
              EntityProperty(PropertyKeys_LayerName, layerNode.name),
              EntityProperty(PropertyKeys_LayerId, idToString(m.id))>>]

\* layerProperties adding the hidden property before the locked one
layerProperties_hiddenFirst(s, layerNode) ==
    LET g  == getId(s, "m_layerIds", layerNode)
        r0 == <<EntityProperty(PropertyKeys_Classname, PropertyValues_LayerClassname),
                EntityProperty(PropertyKeys_GroupType, PropertyValues_GroupTypeLayer),
                EntityProperty(PropertyKeys_LayerName, layerNode.name),
                EntityProperty(PropertyKeys_LayerId, g.id)>>
        r1 == IF layerNode.hasSortIndex
              THEN Append(r0, EntityProperty(PropertyKeys_LayerSortIndex,
                                             str_to_string(layerNode.sortIndex)))
              ELSE r0
        r2 == IF layerNode.hidden
              THEN Append(r1, EntityProperty(PropertyKeys_LayerHidden,
                                             PropertyValues_LayerHiddenValue))
              ELSE r1
        r3 == IF layerNode.lockState = Lock_Locked
              THEN Append(r2, EntityProperty(PropertyKeys_LayerLocked,
                                             PropertyValues_LayerLockedValue))
              ELSE r2
        r4 == IF layerNode.omitFromExport
              THEN Append(r3, EntityProperty(PropertyKeys_LayerOmitFromExport,
                                             PropertyValues_LayerOmitFromExportValue))
              ELSE r3
    IN  [s |-> g.s, properties |-> r4]

layerProperties(s, layerNode) ==
    LET g  == getId(s, "m_layerIds", layerNode)
        r0 == <<EntityProperty(PropertyKeys_Classname, PropertyValues_LayerClassname),
                EntityProperty(PropertyKeys_GroupType, PropertyValues_GroupTypeLayer),
                EntityProperty(PropertyKeys_LayerName, layerNode.name),
                EntityProperty(PropertyKeys_LayerId, g.id)>>
        r1 == IF layerNode.hasSortIndex
              THEN Append(r0, EntityProperty(PropertyKeys_LayerSortIndex,
                                             str_to_string(layerNode.sortIndex)))
              ELSE r0
        r2 == IF layerNode.lockState = Lock_Locked
              THEN Append(r1, EntityProperty(PropertyKeys_LayerLocked,
                                             PropertyValues_LayerLockedValue))
              ELSE r1
        r3 == IF layerNode.hidden
              THEN Append(r2, EntityProperty(PropertyKeys_LayerHidden,
                                             PropertyValues_LayerHiddenValue))
              ELSE r2
        r4 == IF layerNode.omitFromExport
              THEN Append(r3, EntityProperty(PropertyKeys_LayerOmitFromExport,
                                             PropertyValues_LayerOmitFromExportValue))
              ELSE r3
    IN  [s |-> g.s, properties |-> r4]

groupProperties(s, group) ==
    LET g == getId(s, "m_groupIds", group)
    IN  [s |-> g.s,
         properties |->
            <<EntityProperty(PropertyKeys_Classname, PropertyValues_GroupClassname),
              EntityProperty(PropertyKeys_GroupType, PropertyValues_GroupTypeGroup),
              EntityProperty(PropertyKeys_GroupName, group.name),
              EntityProperty(PropertyKeys_GroupId, g.id)>>]

\* ------------------------------------------------------------------------
\* NodeSerializer: escaping of property values.  A std::string is the
\* sequence of its characters, indexed from 0 as in the source.
\* ------------------------------------------------------------------------

Backslash == "\\"
Quote == "\""

\* std::size_t is modelled SizeBits wide: TLC's integers cannot hold 2^64,
\* and the parity of a difference is the same modulo every power of two
SizeBits == 30
SizeRange == 2^SizeBits

\* unsigned arithmetic wraps
Wrap(x) == x % SizeRange

\* std::string::npos, size_t(-1)
npos == SizeRange - 1

\* str[i]
charAt(str, i) == str[i + 1]

\* str.find_last_not_of(c) answering 0 where no character differs from c
find_last_not_of_zero(str, c) ==
    LET found == {i \in 0..(Len(str) - 1) : charAt(str, i) # c}
    IN  IF found = {} THEN 0
        ELSE CHOOSE i \in found : \A j \in found : j <= i

\* str.find_last_not_of(c): the last index whose character is not c
find_last_not_of(str, c) ==
    LET found == {i \in 0..(Len(str) - 1) : charAt(str, i) # c}
    IN  IF found = {} THEN npos
        ELSE CHOOSE i \in found : \A j \in found : j <= i

\* str.substr(pos, n), for pos <= str.size()
substr(str, pos, n) ==
    SubSeq(str, pos + 1, IF pos + n < Len(str) THEN pos + n ELSE Len(str))

\* kdl::str_escape_if_necessary(str, chars) from position i on, escaped
\* telling whether the character before is an unpaired backslash: a
\* character of chars gets a backslash before it unless it has one
RECURSIVE str_escape_from(_, _, _, _)
str_escape_from(str, chars, i, escaped) ==
    IF i >= Len(str) THEN <<>>
    ELSE LET c == charAt(str, i)
         IN  (IF c \in chars /\ ~escaped THEN <<Backslash, c>> ELSE <<c>>)
                \o str_escape_from(str, chars, i + 1,
                                   IF c = Backslash THEN ~escaped ELSE FALSE)

str_escape_if_necessary(str, chars) == str_escape_from(str, chars, 0, FALSE)

\* the call of the escaping step: what it was passed and what it returned,
\* with the indices that were read through operator[] before it
Escaped(passed, read) ==
    [passed   |-> passed,
     returned |-> str_escape_if_necessary(passed, {Quote}),
     read     |-> read]

\* escapeEntityProperties removing every trailing backslash it finds
escapeEntityProperties_stripsAlways(str) ==
    LET l == Len(str)
    IN  IF l > 0 /\ charAt(str, l - 1) = Backslash
        THEN Escaped(substr(str, 0, l - 1), {l - 1})
        ELSE Escaped(str, IF l > 0 THEN {l - 1} ELSE {})

escapeEntityProperties(str) ==
    LET l == Len(str)
    IN  IF l > 0 /\ charAt(str, l - 1) = Backslash
        THEN LET p == find_last_not_of(str, Backslash)
             IN  IF Wrap(l - p) % 2 = 0
                 THEN Escaped(substr(str, 0, l - 1), {l - 1})
                 ELSE Escaped(str, {l - 1})
        ELSE Escaped(str, IF l > 0 THEN {l - 1} ELSE {})

\* ------------------------------------------------------------------------
\* NodeSerializer: entities, layers and groups
\* ------------------------------------------------------------------------

\* the visitor of entity() writing a brush for a child of any kind
visitChild_everyKind(s, child) == brush(s, child)

\* one child of brushParent under the kdl::overload visitor of entity()
visitChild(s, child) ==
    CASE child.kind = "World"  -> s
      [] child.kind = "Layer"  -> s
      [] child.kind = "Group"  -> s
      [] child.kind = "Entity" -> s
      [] child.kind = "Brush"  -> brush(s, child)

\* Node::visitChildren with that visitor
RECURSIVE visitChildren(_, _)
visitChildren(s, children) ==
    IF children = <<>> THEN s
    ELSE visitChildren(visitChild(s, Head(children)), Tail(children))

\* entity(node, properties, parentProperties, brushParent) ending the
\* entity before it visits the brushes
entity_endsEarly(s, node, properties, parentProps, brushParent) ==
    visitChildren(endEntity(beginEntity(s, node, properties, parentProps), node),
                  brushParent.children)

\* entity() ending the entity even if a hook has thrown, and throwing on
entity_endsAnyway(s, node, properties, parentProps, brushParent) ==
    LET t == visitChildren(beginEntity(s, node, properties, parentProps),
                           brushParent.children)
    IN  IF t.thrown
        THEN [endEntity([t EXCEPT !.thrown = FALSE], node) EXCEPT !.thrown = TRUE]
        ELSE endEntity(t, node)

\* entity(node, properties, parentProperties, brushParent)
entity(s, node, properties, parentProps, brushParent) ==
    endEntity(visitChildren(beginEntity(s, node, properties, parentProps),
                            brushParent.children),
              node)

\* entity(node, properties, parentProperties, entityBrushes)
entityBrushes(s, node, properties, parentProps, brushNodes) ==
    endEntity(brushes(beginEntity(s, node, properties, parentProps), brushNodes),
              node)

\* the overlay without its removals: a key of the world stays when the layer
\* does not set it
defaultLayerEntity_keepsStale(world) ==
    LET dl == world.defaultLayer
        e1 == IF dl.color # NoColor
              THEN addOrUpdateProperty(world.entity, PropertyKeys_LayerColor,
                                       colorToString(dl.color))
              ELSE world.entity
        e2 == IF dl.lockState = Lock_Locked
              THEN addOrUpdateProperty(e1, PropertyKeys_LayerLocked,
                                       PropertyValues_LayerLockedValue)
              ELSE e1
        e3 == IF dl.hidden
              THEN addOrUpdateProperty(e2, PropertyKeys_LayerHidden,
                                       PropertyValues_LayerHiddenValue)
              ELSE e2
        e4 == IF dl.omitFromExport
              THEN addOrUpdateProperty(e3, PropertyKeys_LayerOmitFromExport,
                                       PropertyValues_LayerOmitFromExportValue)
              ELSE e3
    IN  e4

\* the world's entity with the default layer's color, lock state, hidden
\* flag and omit flag transferred to it
defaultLayerEntity(world) ==
    LET dl == world.defaultLayer
        e1 == IF dl.color # NoColor
              THEN addOrUpdateProperty(world.entity, PropertyKeys_LayerColor,
                                       colorToString(dl.color))
              ELSE removeProperty(world.entity, PropertyKeys_LayerColor)
        e2 == IF dl.lockState = Lock_Locked
              THEN addOrUpdateProperty(e1, PropertyKeys_LayerLocked,
                                       PropertyValues_LayerLockedValue)
              ELSE removeProperty(e1, PropertyKeys_LayerLocked)
        e3 == IF dl.hidden
              THEN addOrUpdateProperty(e2, PropertyKeys_LayerHidden,
                                       PropertyValues_LayerHiddenValue)
              ELSE removeProperty(e2, PropertyKeys_LayerHidden)
        e4 == IF dl.omitFromExport
              THEN addOrUpdateProperty(e3, PropertyKeys_LayerOmitFromExport,
                                       PropertyValues_LayerOmitFromExportValue)
              ELSE removeProperty(e3, PropertyKeys_LayerOmitFromExport)
    IN  e4

\* the world after defaultLayer had the overlay been made on a reference to
\* the world's entity
worldAfterDefaultLayer_inPlace(world) ==
    [world EXCEPT !.entity = defaultLayerEntity(world)]

\* the world after defaultLayer: worldEntity is a copy (auto, not auto&) of
\* the entity of a world passed by reference to const
worldAfterDefaultLayer(world) == world

\* defaultLayer without the export test: the world is always written in full
defaultLayer_alwaysFull(s, world) ==
    entity(s, world, defaultLayerEntity(world), <<>>, world.defaultLayer)

defaultLayer(s, world) ==
    LET worldEntity == defaultLayerEntity(world)
    IN  IF s.m_exporting /\ world.defaultLayer.omitFromExport
        THEN endEntity(beginEntity(s, world, worldEntity, <<>>), world)
        ELSE entity(s, world, worldEntity, <<>>, world.defaultLayer)

\* customLayer synthesizing the layer's properties before the export test
customLayer_propertiesFirst(s, layer) ==
    LET lp == layerProperties(s, layer)
    IN  IF ~(s.m_exporting /\ layer.omitFromExport)
        THEN entity(lp.s, layer, lp.properties, <<>>, layer)
        ELSE lp.s

customLayer(s, layer) ==
    IF ~(s.m_exporting /\ layer.omitFromExport)
    THEN LET lp == layerProperties(s, layer)
         IN  entity(lp.s, layer, lp.properties, <<>>, layer)
    ELSE s

\* group() writing nothing while exporting
group_notWhenExporting(s, groupNode, parentProps) ==
    IF s.m_exporting THEN s
    ELSE LET gp == groupProperties(s, groupNode)
         IN  entity(gp.s, groupNode, gp.properties, parentProps, groupNode)

group(s, groupNode, parentProps) ==
    LET gp == groupProperties(s, groupNode)
    IN  entity(gp.s, groupNode, gp.properties, parentProps, groupNode)

\* ------------------------------------------------------------------------
\* The documents handed to the serializer
\* ------------------------------------------------------------------------

Brush1 == BrushNode(8)
Brush2 == BrushNode(9)
Brush3 == BrushNode(10)

\* an entity with one brush of its own
Entity1 == EntityNode(7, <<Brush3>>)

\* groups that differ in nothing but their identity; each holds a brush,
\* then an entity with a brush of its own, then a second brush
Group(i) == GroupNode(i, "group", <<Brush1, Entity1, Brush2>>)

\* custom layers that differ in nothing but their identity and their omit
\* flag; each holds a brush and a group with a brush of its own
Layer(i, omit) ==
    LayerNode(i, "layer", <<Brush1, GroupNode(5, "group", <<Brush2>>)>>,
              NoColor, FALSE, 0, omit, Lock_Inherited, FALSE)

Color1 == <<1, 0, 0, 1>>

\* the default layer of a world: it holds a brush, an entity with a brush
\* of its own and a second brush
DefaultLayer(col, lock, hid, omit) ==
    LayerNode(2, "Default Layer", <<Brush1, Entity1, Brush2>>,
              col, FALSE, 0, omit, lock, hid)

WorldProperties == <<EntityProperty(PropertyKeys_Classname, "worldspawn")>>

\* a world without layer keys of its own and with a plain default layer
World(omit) ==
    WorldNode(1, WorldProperties, DefaultLayer(NoColor, Lock_Inherited, FALSE, omit))

Property1 == EntityProperty(PropertyKeys_Classname, "light")
Property2 == EntityProperty("origin", "0 0 0")

\* Model::BrushFace, as far as the serializer looks at it: not at all
Face1 == [id |-> 11]
Face2 == [id |-> 12]

\* a back-reference as parentProperties returns it
BackReference == <<EntityProperty(PropertyKeys_Layer, "1")>>

\* ------------------------------------------------------------------------
\* Actions: the public member functions
\* ------------------------------------------------------------------------

CanCall == ncalls < MaxCalls

CallSetExporting ==
    /\ CanCall
    /\ \E exporting \in BOOLEAN :
          Returns(setExporting(this, exporting), "setExporting", nullptr)

CallBeginFile ==
    /\ CanCall
    /\ Returns(beginFile(this, <<>>), "beginFile", nullptr)

CallEndFile ==
    /\ CanCall
    /\ Returns(endFile(this), "endFile", nullptr)

CallBeginEntity1 ==
    /\ CanCall
    /\ Returns(beginEntity1(this, Entity1), "beginEntity1", Entity1)

CallBeginEntity ==
    /\ CanCall
    /\ Returns(beginEntity(this, Entity1, <<Property1>>, <<Property2>>),
               "beginEntity", Entity1)

CallEndEntity ==
    /\ CanCall
    /\ Returns(endEntity(this, Entity1), "endEntity", Entity1)

CallEntityProperty ==
    /\ CanCall
    /\ Returns(entityProperty(this, Property1), "entityProperty", nullptr)

CallEntityProperties ==
    /\ CanCall
    /\ Returns(entityProperties(this, <<Property1, Property2>>),
               "entityProperties", nullptr)

CallBrush ==
    /\ CanCall
    /\ Returns(brush(this, Brush1), "brush", Brush1)

CallBrushes ==
    /\ CanCall
    /\ Returns(brushes(this, <<Brush1, Brush2>>), "brushes", nullptr)

CallBrushFace ==
    /\ CanCall
    /\ Returns(brushFace(this, Face1), "brushFace", nullptr)

CallBrushFaces ==
    /\ CanCall
    /\ Returns(brushFaces(this, <<Face1, Face2>>), "brushFaces", nullptr)

CallDefaultLayer ==
    /\ CanCall
    /\ ReturnsFrom(defaultLayer(this, document), "defaultLayer", document, <<>>,
                   worldAfterDefaultLayer(document))

CallCustomLayer(layers) ==
    /\ CanCall
    /\ \E layer \in layers :
          Returns(customLayer(this, layer), "customLayer", layer)

CallGroup(groups, parentProps) ==
    /\ CanCall
    /\ \E g \in groups, pp \in parentProps :
          ReturnsWith(group(this, g, pp), "group", g, pp)

\* the arguments of entity() after the node
EntityArgs(properties, parentProps, brushParent) ==
    [properties       |-> properties,
     parentProperties |-> parentProps,
     brushParent      |-> brushParent]

CallEntity(parentProps) ==
    /\ CanCall
    /\ \E pp \in parentProps :
          ReturnsWith(entity(this, Entity1, <<Property1>>, pp, Entity1),
                      "entity", Entity1, EntityArgs(<<Property1>>, pp, Entity1))

CallEntityOf(nodes, propertyLists, parentProps, brushParents) ==
    /\ CanCall
    /\ \E node \in nodes, ps \in propertyLists, pp \in parentProps,
          brushParent \in brushParents :
          ReturnsWith(entity(this, node, ps, pp, brushParent),
                      "entity", node, EntityArgs(ps, pp, brushParent))

CallEntityBrushes ==
    /\ CanCall
    /\ Returns(entityBrushes(this, Entity1, <<Property1>>, <<>>, <<Brush1, Brush2>>),
               "entityBrushes", Entity1)

CallParentProperties(nodes) ==
    /\ CanCall
    /\ \E node \in nodes :
          Returns(parentProperties(this, node), "parentProperties", node)

CallEscapeEntityProperties(strings) ==
    /\ CanCall
    /\ \E str \in strings :
          ReturnsWith([this EXCEPT !.result = escapeEntityProperties(str)],
                      "escapeEntityProperties", nullptr, str)

\* ------------------------------------------------------------------------
\* Spec: every member function that changes the serializer, draws an id or
\* calls a hook, on one document
\* ------------------------------------------------------------------------

\* NodeSerializer::NodeSerializer() in a process whose static id counter is
\* firstId, for document w, with a format strategy that fails in the f-th
\* hook call it receives (never, if f = 0): counters 0, not exporting,
\* empty id caches
ConstructedWith(firstId, w, f) ==
    /\ m_entityNo = 0
    /\ m_brushNo = 0
    /\ m_exporting = FALSE
    /\ m_layerIds = <<>>
    /\ m_groupIds = <<>>
    /\ currentId = firstId
    /\ hooks = <<>>
    /\ failAt = f
    /\ thrown = FALSE
    /\ result = NoResult
    /\ called = [op |-> "NodeSerializer", node |-> nullptr, args |-> <<>>]
    /\ ncalls = 0
    /\ document = w

Constructed(firstId, w) == ConstructedWith(firstId, w, 0)

Init == Constructed(1, World(TRUE))

Next ==
    \/ CallSetExporting
    \/ CallBeginFile
    \/ CallEndFile
    \/ CallBeginEntity1
    \/ CallBeginEntity
    \/ CallEndEntity
    \/ CallEntityProperty
    \/ CallEntityProperties
    \/ CallBrush
    \/ CallBrushes
    \/ CallBrushFace
    \/ CallBrushFaces
    \/ CallDefaultLayer
    \/ CallCustomLayer({Layer(3, TRUE)})
    \/ CallGroup({Group(5)}, {<<>>})
    \/ CallEntity({BackReference})
    \/ CallEntityBrushes
    \/ CallParentProperties({Layer(3, TRUE), Group(5)})

Spec == Init /\ [][Next]_vars

\* ------------------------------------------------------------------------
\* SpecWalk: files written through the walk operations, exporting or not,
\* with layers and default layers that are or are not omitted from export
\* ------------------------------------------------------------------------

InitWalk == \E omit \in BOOLEAN : Constructed(1, World(omit))

NextWalk ==
    \/ CallSetExporting
    \/ CallBeginFile
    \/ CallEndFile
    \/ CallDefaultLayer
    \/ CallCustomLayer({Layer(i, omit) : i \in {3, 4}, omit \in BOOLEAN})
    \/ CallGroup({Group(5)}, {<<>>, BackReference})
    \/ CallEntity({<<>>, BackReference})
    \/ CallEntityBrushes

SpecWalk == InitWalk /\ [][NextWalk]_vars

\* ------------------------------------------------------------------------
\* SpecIds: the id managers, in a process whose static id counter may
\* already have been drawn from
\* ------------------------------------------------------------------------

LayerIds == {3, 4}
GroupIds == {5, 6}

InitIds == \E firstId \in {1, MaxStartId} : Constructed(firstId, World(FALSE))

NextIds ==
    \/ CallBeginFile
    \/ CallEndFile
    \/ CallCustomLayer({Layer(i, FALSE) : i \in LayerIds})
    \/ CallGroup({Group(i) : i \in GroupIds}, {<<>>})
    \/ CallParentProperties({nullptr, World(FALSE), Entity1, Brush1}
                            \cup {Layer(i, FALSE) : i \in LayerIds}
                            \cup {Group(i) : i \in GroupIds})

SpecIds == InitIds /\ [][NextIds]_vars

\* ------------------------------------------------------------------------
\* SpecDefaultLayer: the world entity, for every state of the default layer
\* and every set of layer keys the world's own properties may already hold
\* ------------------------------------------------------------------------

LayerKeys ==
    {PropertyKeys_LayerColor, PropertyKeys_LayerLocked,
     PropertyKeys_LayerHidden, PropertyKeys_LayerOmitFromExport}

\* world properties that hold every layer key, with values no layer state
\* produces, between properties of the world's own
StaleProperties ==
    <<EntityProperty(PropertyKeys_LayerColor, "stale"),
      EntityProperty(PropertyKeys_Classname, "worldspawn"),
      EntityProperty(PropertyKeys_LayerLocked, "stale"),
      EntityProperty(PropertyKeys_LayerHidden, "stale"),
      EntityProperty("message", "hello"),
      EntityProperty(PropertyKeys_LayerOmitFromExport, "stale")>>

DefaultLayerWorlds ==
    {WorldNode(1,
               SelectSeq(StaleProperties,
                         LAMBDA p : p.key \notin LayerKeys \/ p.key \in held),
               DefaultLayer(col, lock, hid, omit)) :
        held \in SUBSET LayerKeys,
        col \in {NoColor, Color1},
        lock \in {Lock_Inherited, Lock_Locked},
        hid \in BOOLEAN,
        omit \in BOOLEAN}

InitDefaultLayer == \E w \in DefaultLayerWorlds : Constructed(1, w)

NextDefaultLayer ==
    \/ CallSetExporting
    \/ CallBeginFile
    \/ CallEndFile
    \/ CallDefaultLayer

SpecDefaultLayer == InitDefaultLayer /\ [][NextDefaultLayer]_vars

\* ------------------------------------------------------------------------
\* SpecEscape: escapeEntityProperties on every string of at most MaxLen
\* characters that are a letter, a backslash or a quote
\* ------------------------------------------------------------------------

Chars == {"a", Backslash, Quote}

Strings == UNION {[1..n -> Chars] : n \in 0..MaxLen}

InitEscape == Constructed(1, World(FALSE))

NextEscape == CallEscapeEntityProperties(Strings)

SpecEscape == InitEscape /\ [][NextEscape]_vars

\* ------------------------------------------------------------------------
\* SpecEntity: entity() with a brush parent that has children of every
\* kind, one that has a single brush, and one that has none
\* ------------------------------------------------------------------------

\* a node whose children are of all five kinds, with brushes of their own
\* below the layer, the group and the entity
MixedParent ==
    GroupNode(6, "mixed",
              <<Brush2, World(FALSE), Layer(3, FALSE), Group(5), Entity1, Brush1>>)

BrushParents == {MixedParent, Entity1, Brush3}

InitEntity == Constructed(1, World(FALSE))

NextEntity ==
    \/ CallBeginFile
    \/ CallEntityOf({Entity1}, {<<>>, <<Property1, Property2>>},
                    {<<>>, BackReference}, BrushParents)

SpecEntity == InitEntity /\ [][NextEntity]_vars

\* ------------------------------------------------------------------------
\* SpecLayer: customLayer on the custom layer of a document, for every
\* state of that layer
\* ------------------------------------------------------------------------

CustomLayers ==
    {LayerNode(3, "layer", <<Brush1, GroupNode(5, "group", <<Brush2>>)>>,
               NoColor, hasSort, sort, omit, lock, hid) :
        hasSort \in BOOLEAN,
        sort \in {0, 12},
        omit \in BOOLEAN,
        lock \in {Lock_Inherited, Lock_Locked, Lock_Unlocked},
        hid \in BOOLEAN}

\* a world with a custom layer after its default layer
WorldWith(layer) == [World(FALSE) EXCEPT !.children = Append(@, layer)]

InitLayer == \E layer \in CustomLayers : Constructed(1, WorldWith(layer))

NextLayer ==
    \/ CallSetExporting
    \/ CallBeginFile
    \/ CallCustomLayer({document.children[2]})

SpecLayer == InitLayer /\ [][NextLayer]_vars

\* ------------------------------------------------------------------------
\* SpecFail: the walk with a format strategy that throws in one of its
\* first MaxFailAt hook calls
\* ------------------------------------------------------------------------

InitFail == \E f \in 1..MaxFailAt : ConstructedWith(1, World(FALSE), f)

NextFail ==
    \/ CallBeginFile
    \/ CallEndFile
    \/ CallDefaultLayer
    \/ CallCustomLayer({Layer(3, FALSE)})
    \/ CallGroup({Group(5)}, {BackReference})
    \/ CallEntity({BackReference})
    \/ CallEntityBrushes

SpecFail == InitFail /\ [][NextFail]_vars

\* ------------------------------------------------------------------------
\* Reading the hook calls
\* ------------------------------------------------------------------------

\* the positions of the calls of the hooks named in names
CallsOf(names) == {i \in 1..Len(hooks) : hooks[i].hook \in names}

\* the position of the last call of a hook named in names, 0 without one
LastCallOf(names) ==
    IF CallsOf(names) = {} THEN 0
    ELSE CHOOSE i \in CallsOf(names) : \A j \in CallsOf(names) : j <= i

\* how many calls of hook h follow position i
CallsAfter(i, h) == Cardinality({j \in CallsOf({h}) : j > i})

\* ------------------------------------------------------------------------
\* C1: entityNo() is the number of entity records ended since the last
\* beginFile (0 right after it, and since construction before the first),
\* whichever operations wrote them: an empty world shell counts, a skipped
\* layer does not.  Only beginFile, endEntity and the operations that end an
\* entity through endEntity change it.
\* ------------------------------------------------------------------------

C1_EntitiesEnded == CallsAfter(LastCallOf({"doBeginFile"}), "doEndEntity")

C1_LeavesEntityNo ==
    called'.op \in {"setExporting", "endFile", "beginEntity1", "beginEntity",
                    "entityProperty", "entityProperties", "brush", "brushes",
                    "brushFace", "brushFaces", "parentProperties"}
        => m_entityNo' = m_entityNo

C1_EntityNo ==
    /\ [](m_entityNo = C1_EntitiesEnded)
    /\ [][C1_LeavesEntityNo]_vars

\* a file written while exporting, with the world written as an empty shell
\* and a layer skipped after it: one entity
C1_Witness ==
    /\ LastCallOf({"doBeginFile"}) = 1
    /\ m_exporting
    /\ called.op = "customLayer"
    /\ hooks[Len(hooks)].hook = "doEndEntity"
    /\ hooks[Len(hooks)].node = document.id
    /\ CallsOf({"doBrush"}) = {}
    /\ m_entityNo = 1

\* ------------------------------------------------------------------------
\* C2: brushNo() is the number of brushes written since the last beginEntity
\* (either overload) or beginFile, 0 right after them; endEntity, endFile,
\* entityProperty and brushFace leave it alone.
\* ------------------------------------------------------------------------

C2_BrushesWritten ==
    CallsAfter(LastCallOf({"doBeginFile", "doBeginEntity"}), "doBrush")

C2_LeavesBrushNo ==
    called'.op \in {"endEntity", "endFile", "entityProperty", "entityProperties",
                    "brushFace", "brushFaces"}
        => m_brushNo' = m_brushNo

C2_BrushNo ==
    /\ [](m_brushNo = C2_BrushesWritten)
    /\ [][C2_LeavesBrushNo]_vars

\* brushes written before an entity is begun, and one written in it
C2_Witness ==
    /\ LastCallOf({"doBeginEntity"}) > 2
    /\ hooks[1].hook = "doBrush"
    /\ hooks[2].hook = "doBrush"
    /\ m_brushNo = 1

\* ------------------------------------------------------------------------
\* C3: a file written as beginFile, walk operations (defaultLayer,
\* customLayer, group, entity), endFile reaches the strategy as
\*   doBeginFile (doBeginEntity doEntityProperty* doBrush* doEndEntity)* doEndFile
\* with every entity ended for the node it was begun for, and between two
\* operations no entity is open.
\* ------------------------------------------------------------------------

\* where the file's calls are after one more: "file" between entities,
\* "properties" or "brushes" in the entity begun for node open, "ended"
\* after doEndFile, "broken" once the nesting is violated
C3_Step(at, c) ==
    CASE at.in = "file" /\ c.hook = "doBeginEntity" ->
            [in |-> "properties", open |-> c.node]
      [] at.in = "file" /\ c.hook = "doEndFile" ->
            [in |-> "ended", open |-> NoNode]
      [] at.in = "properties" /\ c.hook = "doEntityProperty" -> at
      [] at.in \in {"properties", "brushes"} /\ c.hook = "doBrush" ->
            [in |-> "brushes", open |-> at.open]
      [] at.in \in {"properties", "brushes"} /\ c.hook = "doEndEntity"
            /\ c.node = at.open ->
            [in |-> "file", open |-> NoNode]
      [] OTHER -> [in |-> "broken", open |-> NoNode]

RECURSIVE C3_Scan(_, _)
C3_Scan(at, calls) ==
    IF calls = <<>> THEN at
    ELSE C3_Scan(C3_Step(at, Head(calls)), Tail(calls))

\* the calls of the last file begun: those after its doBeginFile, up to its
\* doEndFile if it has been ended
C3_FileCalls ==
    LET begun == LastCallOf({"doBeginFile"})
        ends  == {i \in CallsOf({"doEndFile"}) : i > begun}
        last  == IF ends = {} THEN Len(hooks)
                 ELSE CHOOSE i \in ends : \A j \in ends : i <= j
    IN  SubSeq(hooks, begun + 1, last)

C3_Nesting ==
    LastCallOf({"doBeginFile"}) > 0
        => C3_Scan([in |-> "file", open |-> NoNode], C3_FileCalls).in
              \in {"file", "ended"}

\* an ended file with two entities, the first with brushes
C3_Witness ==
    /\ LastCallOf({"doBeginFile"}) = 1
    /\ hooks[Len(hooks)].hook = "doEndFile"
    /\ Cardinality(CallsOf({"doBeginEntity"})) = 2
    /\ Cardinality(CallsOf({"doBrush"})) = 2
    /\ C3_Scan([in |-> "file", open |-> NoNode], C3_FileCalls).in = "ended"

\* ------------------------------------------------------------------------
\* C4: the serializer is a state machine over Idle, InFile and InEntity that
\* rejects beginEntity outside InFile and endEntity outside InEntity: the
\* call ends in an error, the hook is not called and the counters stay.
\* ------------------------------------------------------------------------

\* the state of that machine, told from the last file or entity hook
C4_State ==
    LET last == LastCallOf({"doBeginFile", "doEndFile",
                            "doBeginEntity", "doEndEntity"})
    IN  IF last = 0 THEN "Idle"
        ELSE CASE hooks[last].hook = "doBeginFile"   -> "InFile"
               [] hooks[last].hook = "doEndFile"     -> "Idle"
               [] hooks[last].hook = "doBeginEntity" -> "InEntity"
               [] hooks[last].hook = "doEndEntity"   -> "InFile"

C4_OutOfSequence ==
    \/ called'.op \in {"beginEntity1", "beginEntity"} /\ C4_State # "InFile"
    \/ called'.op = "endEntity" /\ C4_State # "InEntity"

C4_Rejected ==
    /\ hooks' = hooks
    /\ m_entityNo' = m_entityNo
    /\ m_brushNo' = m_brushNo

C4_RejectsOutOfSequence == [][C4_OutOfSequence => C4_Rejected]_vars

\* ------------------------------------------------------------------------
\* C5: an id, once given to a node by a manager, is the id every later
\* getId of that manager returns for the node, whatever ids other nodes are
\* given in between and however many files are begun and ended: neither
\* cache loses or changes an entry, a back-reference asked for again is the
\* cached id, and a layer or group written again carries the cached id.
\* ------------------------------------------------------------------------

C5_Kept(ids, ids2) ==
    \A t \in DOMAIN ids : t \in DOMAIN ids2 /\ ids2[t] = ids[t]

\* the values of the id properties among the hook calls the step added
C5_IdsWritten ==
    {hooks'[i].value : i \in {j \in (Len(hooks) + 1)..Len(hooks') :
                                hooks'[j].key \in {PropertyKeys_LayerId, PropertyKeys_GroupId}}}

C5_StableStep ==
    /\ C5_Kept(m_layerIds, m_layerIds')
    /\ C5_Kept(m_groupIds, m_groupIds')
    /\ called'.op = "parentProperties" /\ called'.node.id \in DOMAIN m_layerIds
          => result' = <<EntityProperty(PropertyKeys_Layer, m_layerIds[called'.node.id])>>
    /\ called'.op = "parentProperties" /\ called'.node.id \in DOMAIN m_groupIds
          => result' = <<EntityProperty(PropertyKeys_Group, m_groupIds[called'.node.id])>>
    /\ called'.op = "customLayer" /\ called'.node.id \in DOMAIN m_layerIds
          => C5_IdsWritten = {m_layerIds[called'.node.id]}
    /\ called'.op = "group" /\ called'.node.id \in DOMAIN m_groupIds
          => C5_IdsWritten = {m_groupIds[called'.node.id]}

C5_StableIds == [][C5_StableStep]_vars

\* a layer was written with its id, a second layer was given an id, a file
\* was begun, and the back-reference to the first layer is the id written
C5_Witness ==
    /\ called.op = "parentProperties"
    /\ called.node.id = 3
    /\ DOMAIN m_layerIds = {3, 4}
    /\ \E i \in 3..Len(hooks) :
          /\ hooks[i].key = PropertyKeys_LayerId
          /\ hooks[i - 2].value = PropertyValues_GroupTypeLayer
          /\ LastCallOf({"doBeginFile"}) > i
          /\ result = <<EntityProperty(PropertyKeys_Layer, hooks[i].value)>>

\* ------------------------------------------------------------------------
\* C6: within one manager no two nodes hold the same id, though they be
\* equal in every field; an id handed out is the decimal form of a value the
\* counter has passed, and a node's first request is given a value the
\* counter had not reached before: ids grow in the order of first requests
\* and none is handed out twice.
\* ------------------------------------------------------------------------

C6_Distinct(ids) ==
    \A t, u \in DOMAIN ids : t # u => ids[t] # ids[u]

C6_HandedOut(ids) ==
    \A t \in DOMAIN ids : \E k \in 1..(currentId - 1) : ids[t] = idToString(k)

C6_Fresh(ids, ids2) ==
    \A t \in DOMAIN ids2 \ DOMAIN ids :
        \E k \in currentId..(currentId' - 1) : ids2[t] = idToString(k)

C6_GrowingStep ==
    /\ currentId' >= currentId
    /\ C6_Fresh(m_layerIds, m_layerIds')
    /\ C6_Fresh(m_groupIds, m_groupIds')

C6_DistinctGrowingIds ==
    /\ [](/\ C6_Distinct(m_layerIds) /\ C6_HandedOut(m_layerIds)
          /\ C6_Distinct(m_groupIds) /\ C6_HandedOut(m_groupIds))
    /\ [][C6_GrowingStep]_vars

\* the two layers, equal in every field, hold the counter's first two values
C6_Witness ==
    /\ DOMAIN m_layerIds = {3, 4}
    /\ m_layerIds[4] = idToString(MaxStartId)
    /\ m_layerIds[3] = idToString(MaxStartId + 1)
    /\ Layer(3, FALSE) = [Layer(4, FALSE) EXCEPT !.id = 3]

\* ------------------------------------------------------------------------
\* C7: the layer manager and the group manager each draw from a counter of
\* their own: giving a group an id does not change the id the layer manager
\* gives to the next layer it has not seen, and the other way round.
\* ------------------------------------------------------------------------

\* the id the layer manager would give to a layer it has not seen
C7_NextLayerId == getId(this, "m_layerIds", Layer(13, FALSE)).id

\* the id the group manager would give to a group it has not seen
C7_NextGroupId == getId(this, "m_groupIds", Group(15)).id

C7_SeparateStep ==
    /\ called'.node.id \in GroupIds => C7_NextLayerId' = C7_NextLayerId
    /\ called'.node.id \in LayerIds => C7_NextGroupId' = C7_NextGroupId

C7_SeparateCounters == [][C7_SeparateStep]_vars

\* ------------------------------------------------------------------------
\* Reading one step
\* ------------------------------------------------------------------------

\* the hook calls the step added
NewCalls == SubSeq(hooks', Len(hooks) + 1, Len(hooks'))

HooksOf(calls) == [i \in 1..Len(calls) |-> calls[i].hook]

NodesOf(calls) == [i \in 1..Len(calls) |-> calls[i].node]

PropertiesOf(calls) ==
    LET ps == SelectSeq(calls, LAMBDA c : c.hook = "doEntityProperty")
    IN  [i \in 1..Len(ps) |-> EntityProperty(ps[i].key, ps[i].value)]

BrushesOf(calls) == NodesOf(SelectSeq(calls, LAMBDA c : c.hook = "doBrush"))

\* the ids of the children of node that are brushes, in child order
DirectBrushes(node) ==
    LET bs == SelectSeq(node.children, LAMBDA c : c.kind = "Brush")
    IN  [i \in 1..Len(bs) |-> bs[i].id]

\* one entity record for node: begun, properties, then brushes, ended
IsRecordOf(calls, node) ==
    /\ Len(calls) >= 2
    /\ calls[1].hook = "doBeginEntity" /\ calls[1].node = node.id
    /\ calls[Len(calls)].hook = "doEndEntity" /\ calls[Len(calls)].node = node.id
    /\ \A i \in 2..(Len(calls) - 1) : calls[i].hook \in {"doEntityProperty", "doBrush"}
    /\ \A i, j \in 2..(Len(calls) - 1) :
          calls[i].hook = "doBrush" /\ calls[j].hook = "doEntityProperty" => j < i

\* ------------------------------------------------------------------------
\* C8: the world record defaultLayer writes holds each of the four layer
\* keys exactly if the default layer has a color, is locked, is hidden, is
\* omitted from export, whichever of them the world's own properties held.
\* ------------------------------------------------------------------------

C8_Has(calls, k) == \E i \in 1..Len(calls) : calls[i].key = k

C8_Step ==
    called'.op = "defaultLayer" =>
        /\ IsRecordOf(NewCalls, document)
        /\ C8_Has(NewCalls, PropertyKeys_LayerColor)
              <=> document.defaultLayer.color # NoColor
        /\ C8_Has(NewCalls, PropertyKeys_LayerLocked)
              <=> document.defaultLayer.lockState = Lock_Locked
        /\ C8_Has(NewCalls, PropertyKeys_LayerHidden)
              <=> document.defaultLayer.hidden
        /\ C8_Has(NewCalls, PropertyKeys_LayerOmitFromExport)
              <=> document.defaultLayer.omitFromExport

C8_LayerKeys == [][C8_Step]_vars

\* the world's own properties hold all four keys, the default layer has
\* none of the four, and the record written holds the world's other
\* properties only
C8_Witness ==
    /\ called.op = "defaultLayer"
    /\ document.entity = StaleProperties
    /\ document.defaultLayer = DefaultLayer(NoColor, Lock_Inherited, FALSE, FALSE)
    /\ Len(hooks) >= 6
    /\ PropertiesOf(hooks) =
          <<EntityProperty(PropertyKeys_Classname, "worldspawn"),
            EntityProperty("message", "hello")>>

\* ------------------------------------------------------------------------
\* C9: exporting, with the default layer omitted from export, defaultLayer
\* writes the world without brushes and with none but the properties the
\* world held before that are not layer keys; not exporting, with the same
\* layer, it writes the brushes that are children of the default layer.
\* ------------------------------------------------------------------------

C9_OwnProperties(props) == SelectSeq(props, LAMBDA p : p.key \notin LayerKeys)

C9_Omitted ==
    called'.op = "defaultLayer" /\ document.defaultLayer.omitFromExport

C9_FullWhenSaving ==
    C9_Omitted /\ ~m_exporting =>
        /\ IsRecordOf(NewCalls, document)
        /\ BrushesOf(NewCalls) = DirectBrushes(document.defaultLayer)

C10_Skipped == m_exporting /\ called'.node.omitFromExport

C10_Step ==
    called'.op = "customLayer" =>
        IF C10_Skipped
        THEN /\ hooks' = hooks
             /\ m_entityNo' = m_entityNo
             /\ m_brushNo' = m_brushNo
             /\ m_layerIds' = m_layerIds
             /\ m_groupIds' = m_groupIds
        ELSE /\ IsRecordOf(NewCalls, called'.node)
             /\ m_entityNo' = m_entityNo + 1

C10_SkipsOmittedLayer == [][C10_Step]_vars

\* in a file begun while exporting, an omitted layer was skipped: nothing
\* follows doBeginFile and no id is cached
C10_Witness ==
    /\ called.op = "customLayer"
    /\ called.node.omitFromExport
    /\ m_exporting
    /\ HooksOf(hooks) = <<"doBeginFile">>
    /\ m_layerIds = <<>>
    /\ m_entityNo = 0

\* ------------------------------------------------------------------------
\* C11: the value of the "Layer" back-reference parentProperties returns for
\* a layer is the layer id in every record customLayer wrote for that layer,
\* whichever came first and whatever ids were drawn in between, and the like
\* for a group and group(); a layer's own record holds no back-reference.
\* The id cached for the node stands between the two: every record written
\* carries it, a back-reference returned is it, and no step changes it.
\* ------------------------------------------------------------------------

\* the properties written right after the begin-entity call at position i
RECURSIVE RecordProperties(_)
RecordProperties(i) ==
    IF i + 1 <= Len(hooks) /\ hooks[i + 1].hook = "doEntityProperty"
    THEN <<EntityProperty(hooks[i + 1].key, hooks[i + 1].value)>>
            \o RecordProperties(i + 1)
    ELSE <<>>

\* the values record r holds under key k
ValuesOf(r, k) == {r[j].value : j \in {x \in 1..Len(r) : r[x].key = k}}

C11_Records(ids) == {i \in CallsOf({"doBeginEntity"}) : hooks[i].node \in ids}

C11_Inv ==
    /\ \A i \in C11_Records(LayerIds) :
          /\ hooks[i].node \in DOMAIN m_layerIds
          /\ ValuesOf(RecordProperties(i), PropertyKeys_LayerId)
                = {m_layerIds[hooks[i].node]}
          /\ ValuesOf(RecordProperties(i), PropertyKeys_Layer) = {}
          /\ ValuesOf(RecordProperties(i), PropertyKeys_Group) = {}
    /\ \A i \in C11_Records(GroupIds) :
          /\ hooks[i].node \in DOMAIN m_groupIds
          /\ ValuesOf(RecordProperties(i), PropertyKeys_GroupId)
                = {m_groupIds[hooks[i].node]}
    /\ called.op = "parentProperties" /\ called.node.kind = "Layer"
          => /\ called.node.id \in DOMAIN m_layerIds
             /\ result = <<EntityProperty(PropertyKeys_Layer,
                                          m_layerIds[called.node.id])>>
    /\ called.op = "parentProperties" /\ called.node.kind = "Group"
          => /\ called.node.id \in DOMAIN m_groupIds
             /\ result = <<EntityProperty(PropertyKeys_Group,
                                          m_groupIds[called.node.id])>>

C11_BackReferenceIsOwnId ==
    /\ []C11_Inv
    /\ [][C5_Kept(m_layerIds, m_layerIds') /\ C5_Kept(m_groupIds, m_groupIds')]_vars

\* layer 3 was given its id by a back-reference, a group drew the next id,
\* and only then was the layer's one record written, with the id of the
\* back-reference
C11_Witness ==
    /\ called.op = "customLayer"
    /\ called.node.id = 3
    /\ Cardinality(C11_Records({3})) = 1
    /\ 5 \in DOMAIN m_groupIds
    /\ m_groupIds[5] = idToString(currentId - 1)
    /\ \A i \in C11_Records({3}) :
          ValuesOf(RecordProperties(i), PropertyKeys_LayerId)
             = {idToString(currentId - 2)}

\* ------------------------------------------------------------------------
\* C12: escapeEntityProperties passes the string without its last character
\* to the escaping step if the string ends in an odd number of backslashes,
\* and the whole string if it ends in an even number of them or in none.
\* ------------------------------------------------------------------------

\* the number of backslashes str ends in
RECURSIVE TrailingBackslashes(_)
TrailingBackslashes(str) ==
    IF str = <<>> \/ str[Len(str)] # Backslash THEN 0
    ELSE 1 + TrailingBackslashes(SubSeq(str, 1, Len(str) - 1))

C12_StripsOddBackslash ==
    called.op = "escapeEntityProperties" =>
        LET str == called.args
        IN  /\ TrailingBackslashes(str) % 2 = 1
                 => /\ result.passed = SubSeq(str, 1, Len(str) - 1)
                    /\ TrailingBackslashes(result.passed)
                          = TrailingBackslashes(str) - 1
            /\ TrailingBackslashes(str) % 2 = 0 => result.passed = str
            /\ result.returned = str_escape_if_necessary(result.passed, {Quote})

\* "\\\ lost the last of its three backslashes, and its quote was escaped
C12_Witness ==
    /\ called.op = "escapeEntityProperties"
    /\ called.args = <<Quote, Backslash, Backslash, Backslash>>
    /\ result.passed = <<Quote, Backslash, Backslash>>
    /\ result.returned = <<Backslash, Quote, Backslash, Backslash>>

\* ------------------------------------------------------------------------
\* C20: for a string of n >= 1 backslashes and nothing else, where
\* find_last_not_of answers npos and l - p wraps, escapeEntityProperties
\* passes n - 1 backslashes on if n is odd and all n if n is even, which is
\* what it does with the n backslashes that end a string beginning with
\* another character; the only index it reads is the last of the string.
\* ------------------------------------------------------------------------

\* the string of n backslashes
Backslashes(n) == [i \in 1..n |-> Backslash]

C20_OnlyBackslashes ==
    /\ called.op = "escapeEntityProperties"
    /\ called.args # <<>>
    /\ called.args = Backslashes(Len(called.args))

C20_AllBackslashString ==
    C20_OnlyBackslashes =>
        LET n == Len(called.args)
        IN  /\ find_last_not_of(called.args, Backslash) = npos
            /\ result.passed = Backslashes(IF n % 2 = 1 THEN n - 1 ELSE n)
            /\ n < MaxLen =>
                  escapeEntityProperties(<<"a">> \o called.args).passed
                     = <<"a">> \o result.passed
            /\ result.read \subseteq 0..(n - 1)

\* three backslashes, of which two were passed on
C20_Witness ==
    /\ C20_OnlyBackslashes
    /\ Len(called.args) = 3
    /\ result.passed = <<Backslash, Backslash>>
    /\ result.read = {2}

\* ------------------------------------------------------------------------
\* C13: entity(node, properties, parentProperties, brushParent) calls, in
\* this order and nothing else: begin-entity for node, the property hook for
\* each of properties in order, then for each of parentProperties in order,
\* the brush hook for each child of brushParent that is a brush, in child
\* order, and end-entity for node.  Children of the other kinds and the
\* nodes below them get no hook, and brushNo() is afterwards the number of
\* children of brushParent that are brushes.
\* ------------------------------------------------------------------------

\* a hook call without the counters the strategy saw
C13_Call(h, n, k, v) == [hook |-> h, node |-> n, key |-> k, value |-> v]

C13_Made(calls) ==
    [i \in 1..Len(calls) |->
        C13_Call(calls[i].hook, calls[i].node, calls[i].key, calls[i].value)]

C13_PropertyCalls(ps) ==
    [i \in 1..Len(ps) |-> C13_Call("doEntityProperty", NoNode, ps[i].key, ps[i].value)]

C13_BrushCalls(bs) == [i \in 1..Len(bs) |-> C13_Call("doBrush", bs[i], "", "")]

C13_Step ==
    called'.op = "entity" =>
        LET a == called'.args
        IN  /\ C13_Made(NewCalls)
                  = <<C13_Call("doBeginEntity", called'.node.id, "", "")>>
                    \o C13_PropertyCalls(a.properties)
                    \o C13_PropertyCalls(a.parentProperties)
                    \o C13_BrushCalls(DirectBrushes(a.brushParent))
                    \o <<C13_Call("doEndEntity", called'.node.id, "", "")>>
            /\ m_brushNo' = Len(DirectBrushes(a.brushParent))

C13_EntityHookOrder == [][C13_Step]_vars

\* an entity written with two properties, a back-reference and the two
\* brushes among the six children of the mixed parent
C13_Witness ==
    /\ called.op = "entity"
    /\ called.args = EntityArgs(<<Property1, Property2>>, BackReference, MixedParent)
    /\ Len(hooks) = 7
    /\ BrushesOf(hooks) = <<Brush2.id, Brush1.id>>
    /\ m_brushNo = 2

\* ------------------------------------------------------------------------
\* C14: the record customLayer writes for a layer holds the classname, the
\* group type, the layer's name and the layer's id, in this order, then the
\* sort index if the layer has one, the locked property if it is locked,
\* the hidden property if it is hidden and the omit property if it is
\* omitted from export, in this order and no other property.  While not
\* exporting, an omitted layer is written, with the omit property.
\* ------------------------------------------------------------------------

\* property p if cond holds, nothing otherwise
C14_If(cond, p) == IF cond THEN <<p>> ELSE <<>>

C14_Expected(layer, id) ==
    <<EntityProperty("classname", "func_group"),
      EntityProperty("_tb_type", "_tb_layer"),
      EntityProperty("_tb_name", layer.name),
      EntityProperty("_tb_id", id)>>
    \o C14_If(layer.hasSortIndex,
              EntityProperty(PropertyKeys_LayerSortIndex, str_to_string(layer.sortIndex)))
    \o C14_If(layer.lockState = Lock_Locked,
              EntityProperty(PropertyKeys_LayerLocked, PropertyValues_LayerLockedValue))
    \o C14_If(layer.hidden,
              EntityProperty(PropertyKeys_LayerHidden, PropertyValues_LayerHiddenValue))
    \o C14_If(layer.omitFromExport,
              EntityProperty(PropertyKeys_LayerOmitFromExport,
                             PropertyValues_LayerOmitFromExportValue))

C14_Step ==
    called'.op = "customLayer" /\ ~(m_exporting /\ called'.node.omitFromExport) =>
        /\ called'.node.id \in DOMAIN m_layerIds'
        /\ IsRecordOf(NewCalls, called'.node)
        /\ PropertiesOf(NewCalls)
              = C14_Expected(called'.node, m_layerIds'[called'.node.id])
        /\ called'.node.omitFromExport =>
              NewCalls[Len(NewCalls) - 2].key = PropertyKeys_LayerOmitFromExport

C14_LayerRecord == [][C14_Step]_vars

\* a locked, hidden, omitted layer with a sort index, written while not
\* exporting: eight properties, the last of them the omit property
C14_Witness ==
    /\ called.op = "customLayer"
    /\ ~m_exporting
    /\ called.node.omitFromExport /\ called.node.hidden
    /\ called.node.hasSortIndex /\ called.node.lockState = Lock_Locked
    /\ Len(hooks) = 11
    /\ hooks[9].key = PropertyKeys_LayerOmitFromExport
    /\ hooks[10].hook = "doBrush"

\* ------------------------------------------------------------------------
\* C15: group(groupNode, parentProperties) writes one entity record whether
\* exporting or not and whatever layers are omitted: the classname, the
\* group type, the group's name and the group's id, then parentProperties
\* in order, then the children of the group that are brushes, in order.
\* ------------------------------------------------------------------------

C15_Step ==
    called'.op = "group" =>
        /\ called'.node.id \in DOMAIN m_groupIds'
        /\ IsRecordOf(NewCalls, called'.node)
        /\ PropertiesOf(NewCalls)
              = <<EntityProperty("classname", "func_group"),
                  EntityProperty("_tb_type", "_tb_group"),
                  EntityProperty("_tb_name", called'.node.name),
                  EntityProperty("_tb_id", m_groupIds'[called'.node.id])>>
                \o called'.args
        /\ BrushesOf(NewCalls) = DirectBrushes(called'.node)
        /\ m_entityNo' = m_entityNo + 1

C15_GroupRecord == [][C15_Step]_vars

\* while exporting a document whose default layer is omitted, a group was
\* written with a back-reference and its two brushes
C15_Witness ==
    /\ called.op = "group"
    /\ m_exporting
    /\ document.defaultLayer.omitFromExport
    /\ called.args = BackReference
    /\ Len(hooks) >= 9
    /\ hooks[Len(hooks) - 3].key = PropertyKeys_Layer
    /\ hooks[Len(hooks) - 2].node = Brush1.id
    /\ hooks[Len(hooks) - 1].node = Brush2.id
    /\ hooks[Len(hooks)].hook = "doEndEntity"

\* ------------------------------------------------------------------------
\* C16: parentProperties(node) returns nothing for no node, a world, an
\* entity and a brush, and then draws no id; for a layer it returns the one
\* property "Layer" with the layer's id from the layer manager and leaves
\* the group manager alone; for a group it returns the one property "Group"
\* with the group's id from the group manager and leaves the layer manager
\* alone.
\* ------------------------------------------------------------------------

C16_Step ==
    called'.op = "parentProperties" =>
        LET node == called'.node
        IN  /\ hooks' = hooks
            /\ node.kind \in {"nullptr", "World", "Entity", "Brush"} =>
                  /\ result' = <<>>
                  /\ m_layerIds' = m_layerIds
                  /\ m_groupIds' = m_groupIds
                  /\ currentId' = currentId
            /\ node.kind = "Layer" =>
                  /\ node.id \in DOMAIN m_layerIds'
                  /\ result' = <<EntityProperty("_tb_layer", m_layerIds'[node.id])>>
                  /\ m_groupIds' = m_groupIds
                  /\ DOMAIN m_layerIds' = DOMAIN m_layerIds \cup {node.id}
            /\ node.kind = "Group" =>
                  /\ node.id \in DOMAIN m_groupIds'
                  /\ result' = <<EntityProperty("_tb_group", m_groupIds'[node.id])>>
                  /\ m_layerIds' = m_layerIds
                  /\ DOMAIN m_groupIds' = DOMAIN m_groupIds \cup {node.id}

C16_ParentProperties == [][C16_Step]_vars

\* a brush was asked after a layer and a group had been: nothing returned,
\* and the counter is where the two ids left it
C16_Witness ==
    /\ called.op = "parentProperties"
    /\ called.node.kind = "Brush"
    /\ result = <<>>
    /\ DOMAIN m_layerIds = {3}
    /\ DOMAIN m_groupIds = {5}
    /\ hooks = <<>>
    /\ currentId \in {3, MaxStartId + 2}

\* ------------------------------------------------------------------------
\* C17: the counters are advanced after the hook.  Every begin-entity,
\* property, brush and end-entity hook of the k-th entity begun since the
\* last beginFile sees entityNo() = k - 1, and the brush hook of the j-th
\* brush of that entity sees brushNo() = j - 1; the end-entity hook sees
\* the number of its brushes.
\* ------------------------------------------------------------------------

\* the position of the last call of hook h before position i of trace,
\* 0 without one
RECURSIVE C17_LastBefore(_, _, _)
C17_LastBefore(trace, h, i) ==
    IF i <= 1 THEN 0
    ELSE IF trace[i - 1].hook = h THEN i - 1
    ELSE C17_LastBefore(trace, h, i - 1)

\* how many calls of hook h lie at positions from..to of trace
C17_Count(trace, h, from, to) ==
    Cardinality({j \in from..to : j >= 1 /\ trace[j].hook = h})

\* the call at position i of trace saw the counters the claim names
C17_SeenAt(trace, i) ==
    LET begunFile   == C17_LastBefore(trace, "doBeginFile", i)
        begunEntity == C17_LastBefore(trace, "doBeginEntity", i + 1)
    IN  /\ trace[i].entityNo = C17_Count(trace, "doBeginEntity", begunFile, i) - 1
        /\ trace[i].hook \in {"doBrush", "doEndEntity"} =>
              trace[i].brushNo = C17_Count(trace, "doBrush", begunEntity, i - 1)

C17_Step ==
    \A i \in (Len(hooks) + 1)..Len(hooks') :
        hooks'[i].hook \in {"doBeginEntity", "doEntityProperty", "doBrush", "doEndEntity"}
            => C17_SeenAt(hooks', i)

C17_CountersInHooks == [][C17_Step]_vars

\* the second brush of the second entity of a file saw entityNo() = 1 and
\* brushNo() = 1
C17_Witness ==
    \E i \in CallsOf({"doBrush"}) :
        /\ hooks[i].entityNo = 1
        /\ hooks[i].brushNo = 1
        /\ C17_LastBefore(hooks, "doBeginFile", i) > 0
        /\ m_entityNo = 2

\* ------------------------------------------------------------------------
\* C18: a hook that fails ends the operation that called it.  The operation
\* throws; the failed call is the last hook call it made, so an entity it
\* had begun gets no end-entity hook; the counters are what the failed hook
\* saw, so the step that failed is not counted; and the hook calls made
\* before stay made.  An operation that does not throw had no hook fail.
\* ------------------------------------------------------------------------

C18_Step ==
    /\ SubSeq(hooks', 1, Len(hooks)) = hooks
    /\ thrown' =>
          /\ NewCalls # <<>>
          /\ NewCalls[Len(NewCalls)].failed
          /\ \A i \in 1..(Len(NewCalls) - 1) : ~NewCalls[i].failed
          /\ m_entityNo' = NewCalls[Len(NewCalls)].entityNo
          /\ m_brushNo' = NewCalls[Len(NewCalls)].brushNo
          /\ NewCalls[Len(NewCalls)].hook # "doEndEntity" =>
                \A i \in 1..Len(NewCalls) : NewCalls[i].hook # "doEndEntity"
    /\ ~thrown' => \A i \in 1..Len(NewCalls) : ~NewCalls[i].failed

C18_FailureAborts == [][C18_Step]_vars

\* the strategy threw in the brush hook of the second brush of a group: the
\* call is the last in the trace, the group is begun and not ended, one
\* brush is counted and no entity
C18_Witness ==
    /\ thrown
    /\ called.op = "group"
    /\ Len(hooks) = 8
    /\ hooks[1].hook = "doBeginEntity"
    /\ hooks[8].hook = "doBrush" /\ hooks[8].failed
    /\ CallsOf({"doEndEntity"}) = {}
    /\ m_brushNo = 1
    /\ m_entityNo = 0

\* ------------------------------------------------------------------------
\* C19: defaultLayer leaves the world as it found it, its property list
\* included, and no key occurs twice among the properties it writes: a
\* layer key the world held is written once, with the value the default
\* layer gives it, and the world's other properties are written as they
\* were, in their order.
\* ------------------------------------------------------------------------

C19_Keys(ps) == {ps[i].key : i \in 1..Len(ps)}

\* the value the default layer dl gives layer key k, provided it gives one
C19_LayerValue(dl, k) ==
    CASE k = PropertyKeys_LayerColor          -> colorToString(dl.color)
      [] k = PropertyKeys_LayerLocked         -> PropertyValues_LayerLockedValue
      [] k = PropertyKeys_LayerHidden         -> PropertyValues_LayerHiddenValue
      [] k = PropertyKeys_LayerOmitFromExport -> PropertyValues_LayerOmitFromExportValue

C19_Step ==
    called'.op = "defaultLayer" =>
        LET written == PropertiesOf(NewCalls)
        IN  /\ document' = document
            /\ document'.entity = called'.node.entity
            /\ Cardinality(C19_Keys(written)) = Len(written)
            /\ \A i \in 1..Len(written) :
                  written[i].key \in LayerKeys =>
                     written[i].value
                        = C19_LayerValue(document.defaultLayer, written[i].key)
            /\ SelectSeq(written, LAMBDA p : p.key \notin LayerKeys)
                  = SelectSeq(document.entity, LAMBDA p : p.key \notin LayerKeys)

C19_WorksOnCopy == [][C19_Step]_vars

\* the world holds a stale color and a stale hidden key, its default layer
\* has a color and is not hidden: the color is written once, in the place
\* of the stale one, with the layer's value, and the world still holds both
C19_Witness ==
    /\ called.op = "defaultLayer"
    /\ document.defaultLayer.color = Color1
    /\ ~document.defaultLayer.hidden
    /\ document.entity[1] = EntityProperty(PropertyKeys_LayerColor, "stale")
    /\ \E i \in 1..Len(document.entity) :
          document.entity[i] = EntityProperty(PropertyKeys_LayerHidden, "stale")
    /\ Len(hooks) >= 4
    /\ hooks[2].key = PropertyKeys_LayerColor
    /\ hooks[2].value = "1 0 0 1"
    /\ Cardinality({i \in 1..Len(hooks) : hooks[i].key = PropertyKeys_LayerColor}) = 1

====
